---------------------------- MODULE Spec2Model ----------------------------
(***************************************************************************)
(* A model of vstgui/lib/events.h: the EventType discriminant, the         *)
(* EventConsumeState flag, the Modifiers and MouseEventButtonState bit     *)
(* sets, the event structs and their constructors, the query casts and    *)
(* assert casts, and the helpers that convert to the legacy encodings.    *)
(*                                                                         *)
(* Three specifications share the variables:                               *)
(*   Spec        one event from construction to destruction, with every    *)
(*               mutator the header gives for its fields;                  *)
(*   SpecPure    the casts and legacy helpers (pure functions) applied to  *)
(*               any constructed event;                                    *)
(*   SpecValues  free-standing Modifiers and MouseEventButtonState values. *)
(*                                                                         *)
(* All bit masks are uint32_t in the source.  Every value the model        *)
(* computes stays below 2^11, so no operation wraps; a & ~b is computed    *)
(* as a - (a & b), which is the same number for 32-bit unsigned operands.  *)
(* Event::id, Event::timestamp, mousePosition, the wheel deltas, the       *)
(* gesture phase, zoom, character and isRepeat are plain data no function  *)
(* of the header reads in a condition; they are left out.                  *)
(***************************************************************************)
EXTENDS Integers, Naturals, Sequences, FiniteSets, TLC

(***************************************************************************)
(* Bounds of the model.                                                    *)
(***************************************************************************)
\* clickCount ranges over 0..MaxClickCount (the source's field is uint32_t)
MaxClickCount == 2
\* virt ranges over 0 .. Equals + VirtSlack (the source's VirtualKey is uint32_t)
VirtSlack == 2
\* the longest initializer list handed to Modifiers::is
MaxListLen == 2

(***************************************************************************)
(* Bit operations on naturals (the C++ operators &, |, & ~, <<).           *)
(***************************************************************************)
RECURSIVE BitAnd(_, _)
BitAnd(a, b) ==
    IF a = 0 \/ b = 0 THEN 0
    ELSE (a % 2) * (b % 2) + 2 * BitAnd(a \div 2, b \div 2)

RECURSIVE BitOr(_, _)
BitOr(a, b) ==
    IF a = 0 THEN b
    ELSE IF b = 0 THEN a
    ELSE (IF a % 2 = 1 \/ b % 2 = 1 THEN 1 ELSE 0) + 2 * BitOr(a \div 2, b \div 2)

\* a & ~b
BitAndNot(a, b) == a - BitAnd(a, b)

\* 1 << n
Shl1(n) == 2 ^ n

(***************************************************************************)
(* enum class EventType                                                    *)
(***************************************************************************)
Unknown == 0
MouseDown == 1
MouseMove == 2
MouseUp == 3
MouseCancel == 4
MouseEnter == 5
MouseExit == 6
MouseWheel == 7
ZoomGesture == 8
KeyUp == 9
KeyDown == 10

EventType == Unknown .. KeyDown

(***************************************************************************)
(* struct EventConsumeState                                                *)
(***************************************************************************)
NotHandled == 0
Handled == 1
Last == 2

\* void operator= (bool state)
ConsumeAssign(data, state) == IF state THEN Handled ELSE NotHandled

\* operator bool ()
ConsumeBool(data) == BitAnd(data, Handled) # 0

\* void reset ()
ConsumeReset(data) == NotHandled

(***************************************************************************)
(* enum class ModifierKey and struct Modifiers                             *)
(***************************************************************************)
Shift == Shl1(0)
Alt == Shl1(1)
Control == Shl1(2)
Super == Shl1(3)
None == 0

\* the keys that stand for a pressed key
ModifierKeys == {Shift, Alt, Control, Super}
\* every enumerator of ModifierKey
ModifierKey == ModifierKeys \cup {None}

Modifiers_empty(data) == data = 0
Modifiers_has(data, modifier) == BitAnd(data, modifier) # 0
Modifiers_is(data, modifier) == data = modifier

RECURSIVE Modifiers_listBits(_, _)
Modifiers_listBits(modifiers, d) ==
    IF modifiers = << >> THEN d
    ELSE Modifiers_listBits(Tail(modifiers), BitOr(d, Head(modifiers)))

\* bool is (const std::initializer_list<ModifierKey>&)
Modifiers_isList(data, modifiers) == data = Modifiers_listBits(modifiers, 0)

Modifiers_add(data, modifier) == BitOr(data, modifier)

Modifiers_remove_keepsOnly(data, modifier) == BitAnd(data, modifier)

Modifiers_remove(data, modifier) == BitAndNot(data, modifier)
Modifiers_clear(data) == 0
Modifiers_assign(data, modifier) == modifier

(***************************************************************************)
(* struct MouseEventButtonState                                            *)
(***************************************************************************)
Left == Shl1(1)
Middle == Shl1(2)
Right == Shl1(3)
Fourth == Shl1(4)
Fifth == Shl1(5)

Position == {Left, Middle, Right, Fourth, Fifth}

ButtonState_isLeft(data) == data = Left
ButtonState_isMiddle(data) == data = Middle
ButtonState_isRight(data) == data = Right
ButtonState_is(data, pos) == data = pos
ButtonState_isOther(data, index) == data = Shl1(index)
ButtonState_has(data, pos) == BitAnd(data, pos) # 0
ButtonState_empty(data) == data = 0

ButtonState_add_shifted(data, pos) == BitOr(data, pos \div 2)

ButtonState_add_replaces(data, pos) == pos

ButtonState_add(data, pos) == BitOr(data, pos)
ButtonState_set(data, pos) == pos
ButtonState_clear(data) == 0
\* bool operator== (const MouseEventButtonState& other)
ButtonState_eq(data, otherData) == data = otherData

(***************************************************************************)
(* MouseDownEvent's private bit in consumed.data                           *)
(***************************************************************************)
IgnoreFollowUpEvents == Last
IgnoreFollowUpEventsBit == Shl1(IgnoreFollowUpEvents)

IgnoreFollowUp_set_overwrites(data, state) ==
    IF state THEN IgnoreFollowUpEventsBit ELSE 0

\* void ignoreFollowUpMoveAndUpEvents (bool state)
IgnoreFollowUp_set(data, state) ==
    IF state THEN BitOr(data, IgnoreFollowUpEventsBit)
    ELSE BitAndNot(data, IgnoreFollowUpEventsBit)

\* bool ignoreFollowUpMoveAndUpEvents ()
IgnoreFollowUp_get(data) == BitAnd(data, IgnoreFollowUpEventsBit) # 0

(***************************************************************************)
(* enum class VirtualKey: only the end of the legacy range matters.        *)
(* Equals is the 58th enumerator (None = 0, ..., Equals = 57).             *)
(***************************************************************************)
VirtualKey_Equals == 57

(***************************************************************************)
(* The state.                                                              *)
(*   cls          the struct the event was constructed as ("none": no      *)
(*                event exists)                                            *)
(*   type         Event::type                                              *)
(*   consumed     Event::consumed.data                                     *)
(*   modifiers    ModifierEvent::modifiers (its data)                      *)
(*   buttonState  MouseEvent::buttonState (its data)                       *)
(*   clickCount   MouseDownEvent::clickCount                               *)
(*   virt         KeyboardEvent::virt                                      *)
(*   ret          the last call of a cast or helper and what it returned   *)
(*   mods, buttons, other   free-standing Modifiers and                    *)
(*                MouseEventButtonState values (their data)                *)
(*   modSet, btnSet, otherSet   history variables: the keys and buttons    *)
(*                the calls made so far have left in mods, buttons, other  *)
(***************************************************************************)
VARIABLES cls, type, consumed, modifiers, buttonState, clickCount, virt, ret,
          mods, buttons, other, modSet, btnSet, otherSet

evVars == <<cls, type, consumed, modifiers, buttonState, clickCount, virt>>
valVars == <<mods, buttons, other, modSet, btnSet, otherSet>>
vars == <<cls, type, consumed, modifiers, buttonState, clickCount, virt, ret,
          mods, buttons, other, modSet, btnSet, otherSet>>

\* structs derived from MouseDownEvent (itself included)
MouseDownClasses == {"MouseDownEvent", "MouseMoveEvent", "MouseUpEvent"}
\* structs derived from MouseEvent
MouseClasses == MouseDownClasses \cup {"MouseEnterEvent", "MouseExitEvent"}
\* structs derived from ModifierEvent
ModifierClasses ==
    MouseClasses \cup {"MouseWheelEvent", "ZoomGestureEvent", "KeyboardEvent"}
Classes == ModifierClasses \cup {"Event", "MouseCancelEvent"}

RECURSIVE BitsOf(_)
\* the mask holding the bits of a set of enumerators
BitsOf(S) ==
    IF S = {} THEN 0
    ELSE LET x == CHOOSE y \in S : TRUE IN BitOr(x, BitsOf(S \ {x}))

\* the values a MouseEventButtonState / a Modifiers can be built to
ButtonStates == {BitsOf(S) : S \in SUBSET Position}
ModifierStates == {BitsOf(S) : S \in SUBSET ModifierKeys}

ClickCounts == 0 .. MaxClickCount
\* every key of the legacy range, VirtSlack values past its end, and one value
\* whose low byte is not 0
VirtualKeys == (0 .. (VirtualKey_Equals + VirtSlack)) \cup {256 + 1}

NoCall == [fn |-> "none"]

\* no event, default-constructed free-standing values
Init ==
    /\ cls = "none"
    /\ type = Unknown
    /\ consumed = NotHandled
    /\ modifiers = 0
    /\ buttonState = 0
    /\ clickCount = 0
    /\ virt = 0
    /\ ret = NoCall
    /\ mods = 0
    /\ buttons = 0
    /\ other = 0
    /\ modSet = {}
    /\ btnSet = {}
    /\ otherSet = {}

(***************************************************************************)
(* Constructors.  Every member has its default initializer; the            *)
(* constructor then sets type and copies its arguments.  A default         *)
(* constructor is the case of empty arguments.                             *)
(***************************************************************************)
Construct(c, t, b, m) ==
    /\ cls = "none"
    /\ cls' = c
    /\ type' = t
    /\ consumed' = NotHandled
    /\ modifiers' = m
    /\ buttonState' = b
    /\ clickCount' = 0
    /\ virt' = 0
    /\ UNCHANGED <<ret, mods, buttons, other, modSet, btnSet, otherSet>>

\* Event () : the root, as noEvent () holds it
NewEvent == Construct("Event", Unknown, 0, 0)

NewMouseEnterEvent ==
    \E b \in ButtonStates, m \in ModifierStates :
        Construct("MouseEnterEvent", MouseEnter, b, m)

NewMouseExitEvent ==
    \E b \in ButtonStates, m \in ModifierStates :
        Construct("MouseExitEvent", MouseExit, b, m)

NewMouseDownEvent ==
    \E b \in ButtonStates : Construct("MouseDownEvent", MouseDown, b, 0)

NewMouseMoveEvent ==
    \E b \in ButtonStates : Construct("MouseMoveEvent", MouseMove, b, 0)

NewMouseUpEvent ==
    \E b \in ButtonStates : Construct("MouseUpEvent", MouseUp, b, 0)

NewMouseCancelEvent == Construct("MouseCancelEvent", MouseCancel, 0, 0)

NewMouseWheelEvent == Construct("MouseWheelEvent", MouseWheel, 0, 0)

NewZoomGestureEvent == Construct("ZoomGestureEvent", ZoomGesture, 0, 0)

\* KeyboardEvent (EventType t = EventType::KeyDown) { type = t; }
NewKeyboardEvent ==
    \E t \in EventType : Construct("KeyboardEvent", t, 0, 0)

\* the event goes out of scope when dispatch returns
Discard ==
    /\ cls # "none"
    /\ cls' = "none"
    /\ type' = Unknown
    /\ consumed' = NotHandled
    /\ modifiers' = 0
    /\ buttonState' = 0
    /\ clickCount' = 0
    /\ virt' = 0
    /\ UNCHANGED <<ret, mods, buttons, other, modSet, btnSet, otherSet>>

(***************************************************************************)
(* Mutators of the event's fields.                                         *)
(***************************************************************************)
\* event.consumed = state
ConsumedAssign(state) ==
    /\ cls # "none"
    /\ consumed' = ConsumeAssign(consumed, state)
    /\ UNCHANGED <<cls, type, modifiers, buttonState, clickCount, virt, ret>>
    /\ UNCHANGED valVars

\* event.consumed.reset ()
ConsumedReset ==
    /\ cls # "none"
    /\ consumed' = ConsumeReset(consumed)
    /\ UNCHANGED <<cls, type, modifiers, buttonState, clickCount, virt, ret>>
    /\ UNCHANGED valVars

\* event.ignoreFollowUpMoveAndUpEvents (state), a member of MouseDownEvent
IgnoreFollowUpMoveAndUpEvents(state) ==
    /\ cls \in MouseDownClasses
    /\ consumed' = IgnoreFollowUp_set(consumed, state)
    /\ UNCHANGED <<cls, type, modifiers, buttonState, clickCount, virt, ret>>
    /\ UNCHANGED valVars

\* event.modifiers.add / remove / clear / operator=
EventModifiers(newData) ==
    /\ cls \in ModifierClasses
    /\ modifiers' = newData
    /\ UNCHANGED <<cls, type, consumed, buttonState, clickCount, virt, ret>>
    /\ UNCHANGED valVars

EventModifiersAdd == \E k \in ModifierKey : EventModifiers(Modifiers_add(modifiers, k))
EventModifiersRemove ==
    \E k \in ModifierKey : EventModifiers(Modifiers_remove(modifiers, k))
EventModifiersClear == EventModifiers(Modifiers_clear(modifiers))
EventModifiersAssign ==
    \E k \in ModifierKey : EventModifiers(Modifiers_assign(modifiers, k))

\* event.buttonState.add / set / clear
EventButtons(newData) ==
    /\ cls \in MouseClasses
    /\ buttonState' = newData
    /\ UNCHANGED <<cls, type, consumed, modifiers, clickCount, virt, ret>>
    /\ UNCHANGED valVars

EventButtonsAdd == \E p \in Position : EventButtons(ButtonState_add(buttonState, p))
EventButtonsSet == \E p \in Position : EventButtons(ButtonState_set(buttonState, p))
EventButtonsClear == EventButtons(ButtonState_clear(buttonState))

\* event.clickCount = n, written by the producer of the event
SetClickCount ==
    /\ cls \in MouseDownClasses
    /\ \E n \in ClickCounts : clickCount' = n
    /\ UNCHANGED <<cls, type, consumed, modifiers, buttonState, virt, ret>>
    /\ UNCHANGED valVars

\* event.virt = key, written by the producer of the event
SetVirt ==
    /\ cls = "KeyboardEvent"
    /\ \E k \in VirtualKeys : virt' = k
    /\ UNCHANGED <<cls, type, consumed, modifiers, buttonState, clickCount, ret>>
    /\ UNCHANGED valVars

Next ==
    \/ NewEvent
    \/ NewMouseEnterEvent
    \/ NewMouseExitEvent
    \/ NewMouseDownEvent
    \/ NewMouseMoveEvent
    \/ NewMouseUpEvent
    \/ NewMouseCancelEvent
    \/ NewMouseWheelEvent
    \/ NewZoomGestureEvent
    \/ NewKeyboardEvent
    \/ Discard
    \/ \E state \in BOOLEAN : ConsumedAssign(state)
    \/ ConsumedReset
    \/ \E state \in BOOLEAN : IgnoreFollowUpMoveAndUpEvents(state)
    \/ EventModifiersAdd
    \/ EventModifiersRemove
    \/ EventModifiersClear
    \/ EventModifiersAssign
    \/ EventButtonsAdd
    \/ EventButtonsSet
    \/ EventButtonsClear
    \/ SetClickCount
    \/ SetVirt

Spec == Init /\ [][Next]_vars

(***************************************************************************)
(* The query casts: TRUE when the switch returns the pointer, FALSE when   *)
(* it returns nullptr.                                                     *)
(***************************************************************************)
asMousePositionEvent(t) ==
    CASE t = ZoomGesture -> TRUE
      [] t = MouseWheel -> TRUE
      [] t = MouseDown -> TRUE
      [] t = MouseMove -> TRUE
      [] t = MouseUp -> TRUE
      [] t = MouseEnter -> TRUE
      [] t = MouseExit -> TRUE
      [] OTHER -> FALSE

asMouseEvent(t) ==
    CASE t = MouseDown -> TRUE
      [] t = MouseMove -> TRUE
      [] t = MouseUp -> TRUE
      [] t = MouseEnter -> TRUE
      [] t = MouseExit -> TRUE
      [] OTHER -> FALSE

asMouseDownEvent(t) ==
    CASE t = MouseDown -> TRUE
      [] t = MouseMove -> TRUE
      [] t = MouseUp -> TRUE
      [] OTHER -> FALSE

asModifierEvent_byRange(t) == t >= MouseDown /\ t <= KeyDown /\ t # MouseCancel

asModifierEvent(t) ==
    CASE t = KeyDown -> TRUE
      [] t = KeyUp -> TRUE
      [] t = MouseWheel -> TRUE
      [] t = MouseDown -> TRUE
      [] t = MouseMove -> TRUE
      [] t = MouseUp -> TRUE
      [] OTHER -> FALSE

asKeyboardEvent(t) ==
    CASE t = KeyDown -> TRUE
      [] t = KeyUp -> TRUE
      [] OTHER -> FALSE

QueryCasts ==
    {"asMousePositionEvent", "asMouseEvent", "asMouseDownEvent",
     "asModifierEvent", "asKeyboardEvent"}

\* what query cast f returns for discriminant t
QueryCast(f, t) ==
    CASE f = "asMousePositionEvent" -> asMousePositionEvent(t)
      [] f = "asMouseEvent" -> asMouseEvent(t)
      [] f = "asMouseDownEvent" -> asMouseDownEvent(t)
      [] f = "asModifierEvent" -> asModifierEvent(t)
      [] f = "asKeyboardEvent" -> asKeyboardEvent(t)

(***************************************************************************)
(* The assert casts: the condition handed to vstgui_assert.                *)
(***************************************************************************)
castMousePositionEvent(t) == t >= MouseDown /\ t <= ZoomGesture
castMouseEvent(t) == t >= MouseDown /\ t <= MouseExit
castMouseDownEvent(t) == t = MouseDown
castMouseMoveEvent(t) == t = MouseMove
castMouseUpEvent(t) == t = MouseUp
castMouseEnterEvent(t) == t = MouseEnter
castMouseExitEvent(t) == t = MouseExit
castMouseCancelEvent(t) == t = MouseCancel
castMouseWheelEvent(t) == t = MouseWheel
castZoomGestureEvent(t) == t = ZoomGesture
castKeyboardEvent(t) == t = KeyDown \/ t = KeyUp

AssertCasts ==
    {"castMousePositionEvent", "castMouseEvent", "castMouseDownEvent",
     "castMouseMoveEvent", "castMouseUpEvent", "castMouseEnterEvent",
     "castMouseExitEvent", "castMouseCancelEvent", "castMouseWheelEvent",
     "castZoomGestureEvent", "castKeyboardEvent"}

\* whether the assertion of assert cast f holds for discriminant t
AssertCast(f, t) ==
    CASE f = "castMousePositionEvent" -> castMousePositionEvent(t)
      [] f = "castMouseEvent" -> castMouseEvent(t)
      [] f = "castMouseDownEvent" -> castMouseDownEvent(t)
      [] f = "castMouseMoveEvent" -> castMouseMoveEvent(t)
      [] f = "castMouseUpEvent" -> castMouseUpEvent(t)
      [] f = "castMouseEnterEvent" -> castMouseEnterEvent(t)
      [] f = "castMouseExitEvent" -> castMouseExitEvent(t)
      [] f = "castMouseCancelEvent" -> castMouseCancelEvent(t)
      [] f = "castMouseWheelEvent" -> castMouseWheelEvent(t)
      [] f = "castZoomGestureEvent" -> castZoomGestureEvent(t)
      [] f = "castKeyboardEvent" -> castKeyboardEvent(t)

(***************************************************************************)
(* The legacy encodings.  cbuttonstate.h (CButton) and vstkeycode.h        *)
(* (VstModifierKey) are not among the files at hand; each constant is one  *)
(* bit of its own mask, with the value the toolkit gives it.               *)
(***************************************************************************)
kLButton == Shl1(1)
kMButton == Shl1(2)
kRButton == Shl1(3)
kShift == Shl1(4)
kControl == Shl1(5)
kAlt == Shl1(6)
kApple == Shl1(7)
kButton4 == Shl1(8)
kButton5 == Shl1(9)
kDoubleClick == Shl1(10)

MODIFIER_SHIFT == Shl1(0)
MODIFIER_ALTERNATE == Shl1(1)
MODIFIER_COMMAND == Shl1(2)
MODIFIER_CONTROL == Shl1(3)

\* state |= bit when cond
OrIf(state, cond, bit) == IF cond THEN BitOr(state, bit) ELSE state

buttonStateFromEventModifiers(m) ==
    LET s1 == OrIf(0, Modifiers_has(m, Control), kControl)
        s2 == OrIf(s1, Modifiers_has(m, Shift), kShift)
    IN  OrIf(s2, Modifiers_has(m, Alt), kAlt)

buttonStateFromMouseEvent_anyClick(t, m, b, c) ==
    LET s0 == buttonStateFromEventModifiers(m)
        s1 == OrIf(s0, ButtonState_has(b, Left), kLButton)
        s2 == OrIf(s1, ButtonState_has(b, Right), kRButton)
        s3 == OrIf(s2, ButtonState_has(b, Middle), kMButton)
        s4 == OrIf(s3, ButtonState_has(b, Fourth), kButton4)
        s5 == OrIf(s4, ButtonState_has(b, Fifth), kButton5)
    IN  OrIf(s5, asMouseDownEvent(t) /\ c >= 1, kDoubleClick)

\* t: the event's type, m: its modifiers, b: its buttonState, c: the
\* clickCount read through the pointer asMouseDownEvent returns
buttonStateFromMouseEvent(t, m, b, c) ==
    LET s0 == buttonStateFromEventModifiers(m)
        s1 == OrIf(s0, ButtonState_has(b, Left), kLButton)
        s2 == OrIf(s1, ButtonState_has(b, Right), kRButton)
        s3 == OrIf(s2, ButtonState_has(b, Middle), kMButton)
        s4 == OrIf(s3, ButtonState_has(b, Fourth), kButton4)
        s5 == OrIf(s4, ButtonState_has(b, Fifth), kButton5)
    IN  OrIf(s5, asMouseDownEvent(t) /\ c > 1, kDoubleClick)

toVstVirtualKey_noRangeCheck(k) == k % 256

\* static_cast<unsigned char> (k) keeps the low byte
toVstVirtualKey(k) ==
    IF k <= VirtualKey_Equals THEN k % 256 ELSE 0

\* the virt and modifier members of the VstKeyCode returned
toVstKeyCode(k, m) ==
    LET m1 == OrIf(0, Modifiers_has(m, Shift), MODIFIER_SHIFT)
        m2 == OrIf(m1, Modifiers_has(m, Alt), MODIFIER_ALTERNATE)
        m3 == OrIf(m2, Modifiers_has(m, Control), MODIFIER_CONTROL)
        m4 == OrIf(m3, Modifiers_has(m, Super), MODIFIER_COMMAND)
    IN  [virt |-> toVstVirtualKey(k), modifier |-> m4]

(***************************************************************************)
(* SpecPure: a cast or helper is applied to a constructed event.  The      *)
(* event is any the constructors and the mutators of Spec build, not yet   *)
(* consumed.                                                               *)
(***************************************************************************)
InitPure ==
    /\ cls \in Classes
    /\ type \in EventType
    /\ \/ cls = "Event" /\ type = Unknown
       \/ cls = "MouseDownEvent" /\ type = MouseDown
       \/ cls = "MouseMoveEvent" /\ type = MouseMove
       \/ cls = "MouseUpEvent" /\ type = MouseUp
       \/ cls = "MouseEnterEvent" /\ type = MouseEnter
       \/ cls = "MouseExitEvent" /\ type = MouseExit
       \/ cls = "MouseCancelEvent" /\ type = MouseCancel
       \/ cls = "MouseWheelEvent" /\ type = MouseWheel
       \/ cls = "ZoomGestureEvent" /\ type = ZoomGesture
       \/ cls = "KeyboardEvent"
    /\ consumed = NotHandled
    /\ modifiers \in (IF cls \in ModifierClasses THEN ModifierStates ELSE {0})
    /\ buttonState \in (IF cls \in MouseClasses THEN ButtonStates ELSE {0})
    /\ clickCount \in (IF cls \in MouseDownClasses THEN ClickCounts ELSE {0})
    /\ virt \in (IF cls = "KeyboardEvent" THEN VirtualKeys ELSE {0})
    /\ ret = NoCall
    /\ mods = 0
    /\ buttons = 0
    /\ other = 0
    /\ modSet = {}
    /\ btnSet = {}
    /\ otherSet = {}

\* asX (event), any event
CallQueryCast ==
    /\ \E f \in QueryCasts : ret' = [fn |-> f, nonnull |-> QueryCast(f, type)]
    /\ UNCHANGED evVars
    /\ UNCHANGED valVars

\* castX (event), any event: the assertion is evaluated
CallAssertCast ==
    /\ \E f \in AssertCasts : ret' = [fn |-> f, asserted |-> AssertCast(f, type)]
    /\ UNCHANGED evVars
    /\ UNCHANGED valVars

\* buttonStateFromEventModifiers (event.modifiers)
CallButtonStateFromEventModifiers ==
    /\ cls \in ModifierClasses
    /\ ret' = [fn |-> "buttonStateFromEventModifiers",
               state |-> buttonStateFromEventModifiers(modifiers)]
    /\ UNCHANGED evVars
    /\ UNCHANGED valVars

\* buttonStateFromMouseEvent (event), event a MouseEvent
CallButtonStateFromMouseEvent ==
    /\ cls \in MouseClasses
    /\ ret' = [fn |-> "buttonStateFromMouseEvent",
               state |-> buttonStateFromMouseEvent(type, modifiers, buttonState,
                                                   clickCount)]
    /\ UNCHANGED evVars
    /\ UNCHANGED valVars

\* toVstVirtualKey (event.virt)
CallToVstVirtualKey ==
    /\ cls = "KeyboardEvent"
    /\ ret' = [fn |-> "toVstVirtualKey", key |-> toVstVirtualKey(virt)]
    /\ UNCHANGED evVars
    /\ UNCHANGED valVars

\* toVstKeyCode (event), event a KeyboardEvent
CallToVstKeyCode ==
    /\ cls = "KeyboardEvent"
    /\ ret' = [fn |-> "toVstKeyCode", keyCode |-> toVstKeyCode(virt, modifiers)]
    /\ UNCHANGED evVars
    /\ UNCHANGED valVars

NextPure ==
    \/ CallQueryCast
    \/ CallAssertCast
    \/ CallButtonStateFromEventModifiers
    \/ CallButtonStateFromMouseEvent
    \/ CallToVstVirtualKey
    \/ CallToVstKeyCode

SpecPure == InitPure /\ [][NextPure]_vars

(***************************************************************************)
(* SpecValues: free-standing values.  mods is a Modifiers, buttons and     *)
(* other are MouseEventButtonStates, all default-constructed in Init.      *)
(* modSet, btnSet and otherSet record what the calls were asked to do:     *)
(* add puts a key in, remove takes it out, clear empties, assignment and   *)
(* set leave the one key given.                                            *)
(***************************************************************************)
\* the keys enumerator k stands for (ModifierKey::None stands for no key)
KeysOf(k) == IF k = None THEN {} ELSE {k}

ModsAdd ==
    /\ \E k \in ModifierKey :
          /\ mods' = Modifiers_add(mods, k)
          /\ modSet' = modSet \cup KeysOf(k)
    /\ UNCHANGED <<buttons, other, btnSet, otherSet, ret>>
    /\ UNCHANGED evVars

ModsRemove ==
    /\ \E k \in ModifierKey :
          /\ mods' = Modifiers_remove(mods, k)
          /\ modSet' = modSet \ KeysOf(k)
    /\ UNCHANGED <<buttons, other, btnSet, otherSet, ret>>
    /\ UNCHANGED evVars

ModsClear ==
    /\ mods' = Modifiers_clear(mods)
    /\ modSet' = {}
    /\ UNCHANGED <<buttons, other, btnSet, otherSet, ret>>
    /\ UNCHANGED evVars

ModsAssign ==
    /\ \E k \in ModifierKey :
          /\ mods' = Modifiers_assign(mods, k)
          /\ modSet' = KeysOf(k)
    /\ UNCHANGED <<buttons, other, btnSet, otherSet, ret>>
    /\ UNCHANGED evVars

ButtonsAdd ==
    /\ \E p \in Position :
          /\ buttons' = ButtonState_add(buttons, p)
          /\ btnSet' = btnSet \cup {p}
    /\ UNCHANGED <<mods, other, modSet, otherSet, ret>>
    /\ UNCHANGED evVars

\* set (pos), also what MouseEventButtonState (Position pos) does
ButtonsSet ==
    /\ \E p \in Position :
          /\ buttons' = ButtonState_set(buttons, p)
          /\ btnSet' = {p}
    /\ UNCHANGED <<mods, other, modSet, otherSet, ret>>
    /\ UNCHANGED evVars

ButtonsClear ==
    /\ buttons' = ButtonState_clear(buttons)
    /\ btnSet' = {}
    /\ UNCHANGED <<mods, other, modSet, otherSet, ret>>
    /\ UNCHANGED evVars

OtherAdd ==
    /\ \E p \in Position :
          /\ other' = ButtonState_add(other, p)
          /\ otherSet' = otherSet \cup {p}
    /\ UNCHANGED <<mods, buttons, modSet, btnSet, ret>>
    /\ UNCHANGED evVars

OtherSet ==
    /\ \E p \in Position :
          /\ other' = ButtonState_set(other, p)
          /\ otherSet' = {p}
    /\ UNCHANGED <<mods, buttons, modSet, btnSet, ret>>
    /\ UNCHANGED evVars

OtherClear ==
    /\ other' = ButtonState_clear(other)
    /\ otherSet' = {}
    /\ UNCHANGED <<mods, buttons, modSet, btnSet, ret>>
    /\ UNCHANGED evVars

NextValues ==
    \/ ModsAdd
    \/ ModsRemove
    \/ ModsClear
    \/ ModsAssign
    \/ ButtonsAdd
    \/ ButtonsSet
    \/ ButtonsClear
    \/ OtherAdd
    \/ OtherSet
    \/ OtherClear

SpecValues == Init /\ [][NextValues]_vars

(***************************************************************************)
(* The claims.                                                             *)
(***************************************************************************)
\* whether bit n (value 2^n) is set in mask x
BitSet(x, n) == (x \div (2 ^ n)) % 2 = 1

C2_AssignKeepsIgnoreFlag ==
    [][\A b \in BOOLEAN :
          (cls \in MouseDownClasses /\ ConsumedAssign(b)) =>
              /\ IgnoreFollowUp_get(consumed') = IgnoreFollowUp_get(consumed)
              /\ ConsumeBool(consumed') = b]_vars

\* C3 (SpecPure), the claim as stated: the assertion of castMousePositionEvent,
\* castMouseEvent and castKeyboardEvent holds for a discriminant exactly when
\* the query cast of the same family returns non-null for it.  Only events
\* whose discriminant is the one documented for their struct are looked at, so
\* that a violation does not rest on a KeyboardEvent constructed with a type
\* that is not a keyboard type.
C3_AssertCastMatchesQueryCast ==
    (cls = "KeyboardEvent" => type \in {KeyDown, KeyUp}) =>
        /\ ret.fn = "castMousePositionEvent" =>
              (ret.asserted <=> asMousePositionEvent(type))
        /\ ret.fn = "castMouseEvent" => (ret.asserted <=> asMouseEvent(type))
        /\ ret.fn = "castKeyboardEvent" => (ret.asserted <=> asKeyboardEvent(type))

\* C4 (Spec), the claim as stated: the discriminant of a constructed event is
\* the one documented for its struct, in the accepted set of the query cast of
\* its family; a KeyboardEvent has KeyDown or KeyUp whatever argument it was
\* constructed with.
C4_DiscriminantInFamily ==
    /\ cls = "MouseDownEvent" => type = MouseDown /\ asMouseDownEvent(type)
    /\ cls = "MouseMoveEvent" => type = MouseMove /\ asMouseDownEvent(type)
    /\ cls = "MouseUpEvent" => type = MouseUp /\ asMouseDownEvent(type)
    /\ cls = "MouseEnterEvent" => type = MouseEnter /\ asMouseEvent(type)
    /\ cls = "MouseExitEvent" => type = MouseExit /\ asMouseEvent(type)
    /\ cls = "MouseCancelEvent" => type = MouseCancel
    /\ cls = "MouseWheelEvent" => type = MouseWheel /\ asMousePositionEvent(type)
    /\ cls = "ZoomGestureEvent" => type = ZoomGesture /\ asMousePositionEvent(type)
    /\ cls = "KeyboardEvent" => type \in {KeyDown, KeyUp} /\ asKeyboardEvent(type)

\* C5 (Spec): a newly constructed event reads bool (consumed) = false; on a
\* pointer-down-family event ignoreFollowUpMoveAndUpEvents (b) leaves
\* bool (consumed) as it was and makes the getter return b; and when the flag
\* is clear, setting it and then clearing it gives back the same consumed.data.
C5_IgnoreFlagIndependent ==
    [][/\ (cls = "none" /\ cls' # "none") => ~ConsumeBool(consumed')
       /\ \A b \in BOOLEAN :
             IgnoreFollowUpMoveAndUpEvents(b) =>
                 /\ ConsumeBool(consumed') = ConsumeBool(consumed)
                 /\ IgnoreFollowUp_get(consumed') = b
       /\ (cls \in MouseDownClasses /\ ~IgnoreFollowUp_get(consumed)) =>
             IgnoreFollowUp_set(IgnoreFollowUp_set(consumed, TRUE), FALSE) = consumed
      ]_vars

\* C5 witness: a consumed pointer-down-family event with the ignore flag set
C5_Witness ==
    /\ cls \in MouseDownClasses
    /\ ConsumeBool(consumed)
    /\ IgnoreFollowUp_get(consumed)

\* the initializer lists handed to Modifiers::is
ModifierLists ==
    UNION {[1 .. n -> ModifierKeys] : n \in 0 .. MaxListLen}

\* the elements of sequence l
Range(l) == {l[i] : i \in DOMAIN l}

\* C6 (SpecValues): after any sequence of add, remove, clear and assignment,
\* has (m) holds exactly for the keys added or assigned and not since removed,
\* cleared or overwritten; is (m) holds exactly when the set is {m}; is (list)
\* exactly when the set is the union of the list; empty () exactly when no key
\* is in the set.
C6_ModifiersQueries ==
    /\ \A m \in ModifierKeys : Modifiers_has(mods, m) <=> m \in modSet
    /\ \A m \in ModifierKeys : Modifiers_is(mods, m) <=> modSet = {m}
    /\ \A l \in ModifierLists : Modifiers_isList(mods, l) <=> modSet = Range(l)
    /\ Modifiers_empty(mods) <=> modSet = {}

\* C6 witness: two keys are held after calls that added them
C6_Witness == modSet = {Alt, Super} /\ Modifiers_isList(mods, <<Super, Alt>>)

\* C7 (SpecValues): after any sequence of add, set and clear, has (p) holds
\* exactly for the buttons in the set; is (p), isLeft (), isMiddle () and
\* isRight () hold exactly when the set is that one button; after add (Left);
\* add (Right) both are had and none of isLeft (), is (Left), isRight ()
\* holds; two states compare equal exactly when they hold the same buttons.
C7_ButtonStateQueries ==
    /\ \A p \in Position : ButtonState_has(buttons, p) <=> p \in btnSet
    /\ \A p \in Position : ButtonState_is(buttons, p) <=> btnSet = {p}
    /\ ButtonState_isLeft(buttons) <=> btnSet = {Left}
    /\ ButtonState_isMiddle(buttons) <=> btnSet = {Middle}
    /\ ButtonState_isRight(buttons) <=> btnSet = {Right}
    /\ btnSet = {Left, Right} =>
          /\ ButtonState_has(buttons, Left)
          /\ ButtonState_has(buttons, Right)
          /\ ~ButtonState_isLeft(buttons)
          /\ ~ButtonState_is(buttons, Left)
          /\ ~ButtonState_isRight(buttons)
    /\ ButtonState_eq(buttons, other) <=> btnSet = otherSet

\* C7 witness: Left and Right were added, and the other state equals this one
C7_Witness ==
    /\ btnSet = {Left, Right}
    /\ otherSet = {Left, Right}
    /\ ButtonState_eq(buttons, other)

\* C8 (SpecPure): the mask buttonStateFromMouseEvent returns has the button bit
\* of each button the event's button state has, the shift, control and alt
\* bits of the modifiers it has, the double-click bit exactly when the type is
\* MouseDown, MouseMove or MouseUp and clickCount > 1, and no other bit.
C8_LegacyButtonMask ==
    ret.fn = "buttonStateFromMouseEvent" =>
        /\ BitSet(ret.state, 1) <=> BitSet(buttonState, 1)
        /\ BitSet(ret.state, 2) <=> BitSet(buttonState, 2)
        /\ BitSet(ret.state, 3) <=> BitSet(buttonState, 3)
        /\ BitSet(ret.state, 8) <=> BitSet(buttonState, 4)
        /\ BitSet(ret.state, 9) <=> BitSet(buttonState, 5)
        /\ BitSet(ret.state, 4) <=> BitSet(modifiers, 0)
        /\ BitSet(ret.state, 5) <=> BitSet(modifiers, 2)
        /\ BitSet(ret.state, 6) <=> BitSet(modifiers, 1)
        /\ BitSet(ret.state, 10) <=>
              (type \in {MouseDown, MouseMove, MouseUp} /\ clickCount > 1)
        /\ ~BitSet(ret.state, 0)
        /\ ~BitSet(ret.state, 7)
        /\ ret.state < 2 ^ 11
        /\ (type = MouseDown /\ clickCount = 2 /\ buttonState = Left) =>
              (BitAnd(ret.state, kLButton) # 0 /\ BitAnd(ret.state, kDoubleClick) # 0)

\* C8 witness: a double click with the left button has been converted
C8_Witness ==
    /\ ret.fn = "buttonStateFromMouseEvent"
    /\ type = MouseDown
    /\ clickCount = 2
    /\ buttonState = Left
    /\ ret.state = kLButton + kDoubleClick

\* C9 (SpecPure): toVstVirtualKey returns the key itself within 0 .. Equals
\* and 0 beyond, always a value of one byte; toVstKeyCode sets the modifier
\* bit of Shift, Alt, Control, Super exactly when the modifiers have the key.
C9_LegacyKeyCode ==
    /\ ret.fn = "toVstVirtualKey" =>
          /\ ret.key = (IF virt <= 57 THEN virt ELSE 0)
          /\ ret.key \in 0 .. 255
    /\ ret.fn = "toVstKeyCode" =>
          /\ ret.keyCode.virt = (IF virt <= 57 THEN virt ELSE 0)
          /\ ret.keyCode.virt \in 0 .. 255
          /\ BitSet(ret.keyCode.modifier, 0) <=> BitSet(modifiers, 0)
          /\ BitSet(ret.keyCode.modifier, 1) <=> BitSet(modifiers, 1)
          /\ BitSet(ret.keyCode.modifier, 3) <=> BitSet(modifiers, 2)
          /\ BitSet(ret.keyCode.modifier, 2) <=> BitSet(modifiers, 3)
          /\ ret.keyCode.modifier < 2 ^ 4

\* C9 witness: the first key beyond the legacy range has been mapped to 0
C9_Witness ==
    ret.fn = "toVstVirtualKey" /\ virt = 58 /\ ret.key = 0

\* C10 (Spec): whatever mutators are called with enumeration values, the
\* event's modifiers hold only bits of Shift, Alt, Control, Super; its button
\* state only bits of Left .. Fifth, never bit 0; consumed.data only the
\* Handled bit and, on pointer-down-family events, bit 1 << Last, which is not
\* the Handled bit.
C10_WellFormedMasks ==
    /\ modifiers \in 0 .. 15
    /\ buttonState \in 0 .. 63
    /\ ~BitSet(buttonState, 0)
    /\ cls \in MouseDownClasses => consumed \in {0, 1, 4, 5}
    /\ cls \notin MouseDownClasses => consumed \in {0, 1}
    /\ IgnoreFollowUpEventsBit = 4
    /\ Handled = 1

\* C10 witness: every bit the claim allows is set at once
C10_Witness ==
    /\ cls \in MouseDownClasses
    /\ consumed = 5
    /\ modifiers = 15
    /\ buttonState = 62

\* C11 (SpecPure), the claim as stated: the accepted sets of the query casts
\* nest along the chain of structs: where asMouseDownEvent returns non-null so
\* does asMouseEvent, where asMouseEvent does so does asMousePositionEvent, and
\* where asMousePositionEvent or asKeyboardEvent does so does asModifierEvent.
\* Only events whose discriminant is the one documented for their struct are
\* looked at, so that a violation does not rest on a KeyboardEvent constructed
\* with a type that is not a keyboard type.
C11_AcceptedSetsNest ==
    (cls = "KeyboardEvent" => type \in {KeyDown, KeyUp}) =>
        /\ (ret.fn = "asMouseDownEvent" /\ ret.nonnull) => asMouseEvent(type)
        /\ (ret.fn = "asMouseEvent" /\ ret.nonnull) => asMousePositionEvent(type)
        /\ (ret.fn = "asMousePositionEvent" /\ ret.nonnull) => asModifierEvent(type)
        /\ (ret.fn = "asKeyboardEvent" /\ ret.nonnull) => asModifierEvent(type)

=============================================================================
